---- MODULE Spec2Model ----
(***************************************************************************)
(* Model of the two search gateways of chat-plugin-arxiv: the preprint     *)
(* (arXiv) handler and the literature-index (PubMed) handler.  Each        *)
(* request is an async function; an action is one run-to-completion slice  *)
(* of it, from one suspension point (await) to the next.                   *)
(***************************************************************************)
EXTENDS Integers, Sequences, FiniteSets, TLC

VARIABLES
  now,              \* the value Date.now() returns
  ticks,            \* how many times the clock has advanced
  lastRequestTime,  \* per module: let lastRequestTime
  reqs              \* the requests received so far, in order of arrival

vars == <<now, ticks, lastRequestTime, reqs>>

----------------------------------------------------------------------------
\* Bounds of the model.
MaxReq == 2
MaxTicks == 2
MaxEntries == 3
StartTime == 5000

\* Program constants.
ARXIV_RATE_LIMIT == 3000
PUBMED_RATE_LIMIT == 100
DEFAULT_MAX_RESULTS == 10

Sources == {"arxiv", "pubmed"}
Methods == {"POST", "GET"}

RATE_LIMIT(src) == IF src = "arxiv" THEN ARXIV_RATE_LIMIT ELSE PUBMED_RATE_LIMIT

----------------------------------------------------------------------------
\* JavaScript values.  A request body is a record whose optional fields may
\* be missing; a parsed XML node is tagged with the shape the parser gave it.

Has(obj, f) == f \in DOMAIN obj

\* if (x): a missing number and the number 0 are both falsy.
Truthy(obj, f) == Has(obj, f) /\ obj[f] # 0

Undef == [kind |-> "undef"]
Obj(v) == [kind |-> "obj", val |-> v]
Arr(s) == [kind |-> "arr", val |-> s]
Num(n) == [kind |-> "num", val |-> n]
Str(s) == [kind |-> "str", val |-> s]

Ok(v) == [ok |-> TRUE, val |-> v]
Throw == [ok |-> FALSE]

RECURSIVE Join(_, _)
\* Array.prototype.join
Join(s, sep) ==
  IF Len(s) = 0 THEN ""
  ELSE IF Len(s) = 1 THEN s[1]
  ELSE s[1] \o sep \o Join(Tail(s), sep)

RECURSIVE Copies(_, _)
Copies(e, n) == IF n = 0 THEN <<>> ELSE <<e>> \o Copies(e, n - 1)

----------------------------------------------------------------------------
\* Query translation.

\* `${query}` of a body without a query property.
QueryOf(body) == IF Has(body, "query") THEN body.query ELSE "undefined"

ArxivPrefix(body) ==
  IF ~Has(body, "searchField") THEN "all:"
  ELSE IF body.searchField = "title" THEN "ti:"
  ELSE IF body.searchField = "author" THEN "au:"
  ELSE IF body.searchField = "abstract" THEN "abs:"
  ELSE "all:"

ArxivDateQuery(body) ==
  (IF Truthy(body, "yearStart")
     THEN <<"submittedDate:[" \o ToString(body.yearStart) \o "0101 TO 99991231]">>
     ELSE <<>>)
  \o
  (IF Truthy(body, "yearEnd")
     THEN <<"submittedDate:[00000101 TO " \o ToString(body.yearEnd) \o "1231]">>
     ELSE <<>>)

ArxivSearchQuery(body) ==
  LET fieldQuery == ArxivPrefix(body) \o QueryOf(body)
      dateQuery == ArxivDateQuery(body)
  IN IF (Truthy(body, "yearStart") \/ Truthy(body, "yearEnd")) /\ Len(dateQuery) > 0
       THEN "(" \o fieldQuery \o ") AND (" \o Join(dateQuery, " AND ") \o ")"
       ELSE fieldQuery

MaxResultsOf(body) ==
  IF Has(body, "maxResults") THEN body.maxResults ELSE DEFAULT_MAX_RESULTS

\* The outbound URL, as the query parameters the upstream decodes from it.
ArxivUrl(body) ==
  [api |-> "query",
   term |-> ArxivSearchQuery(body),
   max |-> MaxResultsOf(body),
   sort |-> IF Has(body, "sortBy") THEN body.sortBy ELSE "relevance"]

\* The slip of pushing both bounds, present or not.
DateFilterMutant(body) ==
  <<(IF Truthy(body, "yearStart") THEN ToString(body.yearStart) \o "[PDAT]" ELSE ""),
    (IF Truthy(body, "yearEnd") THEN ToString(body.yearEnd) \o "[PDAT]" ELSE "")>>

DateFilter(body) ==
  (IF Truthy(body, "yearStart") THEN <<ToString(body.yearStart) \o "[PDAT]">> ELSE <<>>)
  \o
  (IF Truthy(body, "yearEnd") THEN <<ToString(body.yearEnd) \o "[PDAT]">> ELSE <<>>)

PubMedSearchQuery(body) ==
  IF Truthy(body, "yearStart") \/ Truthy(body, "yearEnd")
    THEN "(" \o QueryOf(body) \o ") AND (" \o Join(DateFilter(body), " : ") \o ")"
    ELSE QueryOf(body)

SearchUrl(body) ==
  [api |-> "esearch",
   term |-> PubMedSearchQuery(body),
   max |-> MaxResultsOf(body),
   sort |-> IF ~Has(body, "sortBy") \/ body.sortBy = "relevance" THEN "" ELSE "pub_date"]

FetchUrl(pmids) ==
  [api |-> "efetch", term |-> Join(pmids, ","), max |-> 0, sort |-> ""]

----------------------------------------------------------------------------
\* Responses.

JsonHeaders == {<<"Content-Type", "application/json">>}
CachedJsonHeaders ==
  {<<"Cache-Control", "max-age=3600">>, <<"Content-Type", "application/json">>}

createErrorResponse(type) ==
  [kind |-> "error", errorType |-> type, headers |-> {}, body |-> [papers |-> <<>>]]

SuccessResponse(body, headers) ==
  [kind |-> "success", errorType |-> "none", headers |-> headers, body |-> body]

----------------------------------------------------------------------------
\* Response normalisation, preprint source.

RECURSIVE TrimStart(_)
TrimStart(s) == IF Len(s) > 0 /\ Head(s) = " " THEN TrimStart(Tail(s)) ELSE s

RECURSIVE TrimEnd(_)
TrimEnd(s) ==
  IF Len(s) > 0 /\ s[Len(s)] = " " THEN TrimEnd(SubSeq(s, 1, Len(s) - 1)) ELSE s

\* String.prototype.trim, a string being the sequence of its characters.
Trim(s) == TrimEnd(TrimStart(s))

NameOf(author) == author.name
TermOf(cat) == cat.term

\* Array.isArray(entry.author) ? entry.author.map(...) : [entry.author.name]
AuthorsOf(entry) ==
  IF entry.author.kind = "arr" THEN Ok([i \in 1..Len(entry.author.val) |-> NameOf(entry.author.val[i])])
  ELSE IF entry.author.kind = "obj" THEN Ok(<<entry.author.val.name>>)
  ELSE Throw

CategoriesOf(entry) ==
  IF entry.category.kind = "arr" THEN Ok([i \in 1..Len(entry.category.val) |-> TermOf(entry.category.val[i])])
  ELSE IF entry.category.kind = "obj" THEN Ok(<<entry.category.val.term>>)
  ELSE Throw

\* entry.link.find((link) => link.title === 'pdf').href
PdfUrlOf(entry) ==
  IF entry.link.kind # "arr" THEN Throw
  ELSE LET hits == {i \in 1..Len(entry.link.val) :
                      Has(entry.link.val[i], "title") /\ entry.link.val[i].title = "pdf"}
       IN IF hits = {} THEN Throw
          ELSE Ok(entry.link.val[CHOOSE i \in hits : \A j \in hits : i <= j].href)

TrimmedOf(text) == IF text.kind = "str" THEN Ok(Trim(text.val)) ELSE Throw

ArxivPaper(entry) ==
  IF AuthorsOf(entry).ok /\ CategoriesOf(entry).ok /\ PdfUrlOf(entry).ok
     /\ TrimmedOf(entry.summary).ok /\ TrimmedOf(entry.title).ok
    THEN Ok([authors |-> AuthorsOf(entry).val,
             categories |-> CategoriesOf(entry).val,
             id |-> entry.id,
             pdfUrl |-> PdfUrlOf(entry).val,
             summary |-> TrimmedOf(entry.summary).val,
             title |-> TrimmedOf(entry.title).val])
    ELSE Throw

PaperVal(r) == r.val

\* entries.map(...) of const entries = result.feed.entry || []
ArxivPapers(entry) ==
  IF entry.kind = "undef" THEN Ok(<<>>)
  ELSE IF entry.kind # "arr" THEN Throw
  ELSE IF \E i \in 1..Len(entry.val) : ~ArxivPaper(entry.val[i]).ok THEN Throw
  ELSE Ok([i \in 1..Len(entry.val) |-> PaperVal(ArxivPaper(entry.val[i]))])

\* Number.parseInt(result.feed['opensearch:totalResults'][0], 10), then
\* JSON.stringify, which writes NaN as null.
ArxivTotalResults(total) ==
  IF total.kind = "undef" THEN Throw
  ELSE IF total.kind = "arr" /\ Len(total.val) > 0 THEN Ok(Num(total.val[1]))
  ELSE Ok([kind |-> "null"])

\* The slip of <= for ===.
NextCursorMutant(papers, maxResults) ==
  IF Len(papers) <= maxResults THEN Ok(ToString(maxResults)) ELSE Throw

\* papers.length === maxResults ? String(maxResults) : undefined
NextCursor(papers, maxResults) ==
  IF Len(papers) = maxResults THEN Ok(ToString(maxResults)) ELSE Throw

\* JSON.stringify(responseData): a property whose value is undefined is left out.
ArxivResponseData(papers, total, maxResults) ==
  IF NextCursor(papers, maxResults).ok
    THEN [nextCursor |-> NextCursor(papers, maxResults).val,
          papers |-> papers, totalResults |-> total]
    ELSE [papers |-> papers, totalResults |-> total]

\* The handler from the parsed reply to its return value; Throw is a jump to
\* the catch block.
ArxivNormalize(result, maxResults) ==
  IF ~result.feed THEN Throw
  ELSE IF ~ArxivPapers(result.entry).ok THEN Throw
  ELSE IF ~ArxivTotalResults(result.total).ok THEN Throw
  ELSE Ok(ArxivResponseData(ArxivPapers(result.entry).val,
                            ArxivTotalResults(result.total).val, maxResults))

----------------------------------------------------------------------------
\* Response normalisation, literature-index source.

\* The slip of testing pmids.length === 0 only.
HasLengthMutant(pmids) == pmids.kind # "arr" \/ Len(pmids.val) > 0

\* pmids?.length is a non-zero number: only a string and an array have a length.
HasLength(pmids) == pmids.kind \in {"str", "arr"} /\ Len(pmids.val) > 0

IdText(id) == ToString(id)

\* pmids.join(',')
JoinedIds(pmids) ==
  IF pmids.kind = "arr" THEN Ok([i \in 1..Len(pmids.val) |-> IdText(pmids.val[i])]) ELSE Throw

AuthorName(author) ==
  (IF Has(author, "LastName") THEN author.LastName ELSE "") \o " " \o
  (IF Has(author, "ForeName") THEN author.ForeName ELSE "")

PubMedAuthors(list) ==
  IF list.kind = "arr" THEN [i \in 1..Len(list.val) |-> AuthorName(list.val[i])]
  ELSE IF list.kind = "obj" THEN <<AuthorName(list.val)>>
  ELSE <<>>

\* The parser stores an element's text under "#text", which the record field
\* hashText stands for; the handler reads the property _text.
DoiText(loc) == IF Has(loc, "_text") THEN loc._text ELSE ""

PubMedDoi(eloc) ==
  IF eloc.kind = "arr"
    THEN LET hits == {i \in 1..Len(eloc.val) : eloc.val[i].EIdType = "doi"}
         IN IF hits = {} THEN ""
            ELSE DoiText(eloc.val[CHOOSE i \in hits : \A j \in hits : i <= j])
  ELSE IF eloc.kind = "obj" /\ eloc.val.EIdType = "doi" THEN DoiText(eloc.val)
  ELSE ""

PubMedPaper(article) ==
  IF ~article.medline \/ ~article.journal THEN Throw
  ELSE Ok([authors |-> PubMedAuthors(article.author),
           doi |-> PubMedDoi(article.eloc),
           pmid |-> article.pmid])

\* fetchResult.PubmedArticleSet.PubmedArticle.map(...)
PubMedPapers(result) ==
  IF ~result.set THEN Throw
  ELSE IF result.article.kind # "arr" THEN Throw
  ELSE IF \E i \in 1..Len(result.article.val) : ~PubMedPaper(result.article.val[i]).ok
    THEN Throw
  ELSE Ok([i \in 1..Len(result.article.val) |->
            PaperVal(PubMedPaper(result.article.val[i]))])

\* Number(searchResult.eSearchResult.Count), written by JSON.stringify.
PubMedTotalResults(count) == IF count.kind = "num" THEN count ELSE [kind |-> "null"]

PubMedResponseData(papers, count) ==
  [papers |-> papers, totalResults |-> PubMedTotalResults(count)]

EmptyResponseData == [papers |-> <<>>, totalResults |-> Num(0)]

----------------------------------------------------------------------------
\* The requests.

NoCall == [api |-> "none", term |-> "", max |-> 0, sort |-> ""]
NoBody == [none |-> TRUE]
BadJson == [bad |-> TRUE]
NetErr == [kind |-> "neterr"]

NewRequest(src, method) ==
  [src |-> src, method |-> method, pc |-> "json", body |-> NoBody,
   timer |-> 0, pending |-> NoCall, count |-> Undef,
   calls |-> <<>>, replies |-> <<>>, out |-> <<>>]

\* return <response>
Finish(rq, resp) == [rq EXCEPT !.pc = "done", !.out = Append(@, resp)]

\* The slip of answering a fault with an empty result.
CatchMutant(rq) == Finish(rq, SuccessResponse(EmptyResponseData, CachedJsonHeaders))

\* catch (error) { return createErrorResponse(InternalServerError, ...) }
Catch(rq) == Finish(rq, createErrorResponse("InternalServerError"))

\* The slip of letting GET through.
MethodAllowedMutant(method) == method \in {"POST", "GET"}

\* req.method !== 'POST'
MethodAllowed(method) == method = "POST"

----------------------------------------------------------------------------
\* rateLimit.

TimeSinceLastRequest(src) == now - lastRequestTime[src]

MustWait(src) == TimeSinceLastRequest(src) < RATE_LIMIT(src)

\* The slip of a delay one millisecond short.
TimerDelayMutant(src) == RATE_LIMIT(src) - TimeSinceLastRequest(src) - 1

\* setTimeout(resolve, RATE_LIMIT - timeSinceLastRequest)
TimerDelay(src) == RATE_LIMIT(src) - TimeSinceLastRequest(src)

\* lastRequestTime = Date.now(), rateLimit returns and axios.get(call) is called.
Granted(rq, call) ==
  [rq EXCEPT !.pc = "fetch", !.timer = 0, !.pending = NoCall,
             !.calls = Append(@, [call |-> call, at |-> now])]

\* await rateLimit(); axios.get(call), up to the first suspension.
rateLimit(rq, call) ==
  IF MustWait(rq.src)
    THEN [rq EXCEPT !.pc = "wait", !.timer = now + TimerDelay(rq.src), !.pending = call]
    ELSE Granted(rq, call)

\* The requests after request r became rq, and lastRequestTime after it.
Step(r, rq) ==
  /\ reqs' = [reqs EXCEPT ![r] = rq]
  /\ lastRequestTime' =
       IF rq.pc = "fetch" /\ Len(rq.calls) > Len(reqs[r].calls)
         THEN [lastRequestTime EXCEPT ![rq.src] = now]
         ELSE lastRequestTime
  /\ UNCHANGED <<now, ticks>>

----------------------------------------------------------------------------
\* The handlers, one action per run-to-completion slice.

Init ==
  /\ now = StartTime
  /\ ticks = 0
  /\ lastRequestTime = [s \in Sources |-> 0]
  /\ reqs = <<>>

\* A request arrives: the method check, then await req.json().
Arrive(src, method) ==
  /\ reqs' = Append(reqs,
       IF MethodAllowed(method) THEN NewRequest(src, method)
       ELSE Finish(NewRequest(src, method), createErrorResponse("MethodNotAllowed")))
  /\ UNCHANGED <<now, ticks, lastRequestTime>>

\* req.json() settles: query translation, then the first rateLimit.
BodyParsed(r, body) ==
  /\ reqs[r].pc = "json"
  /\ LET rq == [reqs[r] EXCEPT !.body = body]
     IN Step(r, IF Has(body, "bad") THEN Catch(rq)
                ELSE IF rq.src = "arxiv" THEN rateLimit(rq, ArxivUrl(body))
                ELSE rateLimit(rq, SearchUrl(body)))

\* The timer of rateLimit fires.
TimerFire(r) ==
  /\ reqs[r].pc = "wait"
  /\ now >= reqs[r].timer
  /\ Step(r, Granted(reqs[r], reqs[r].pending))

\* axios.get of the preprint handler settles.
ArxivFetchDone(r, reply) ==
  /\ reqs[r].pc = "fetch"
  /\ reqs[r].src = "arxiv"
  /\ LET rq == [reqs[r] EXCEPT !.replies = Append(@, reply)]
         res == ArxivNormalize(reply, MaxResultsOf(rq.body))
     IN Step(r, IF reply.kind = "neterr" THEN Catch(rq)
                ELSE IF ~res.ok THEN Catch(rq)
                ELSE Finish(rq, SuccessResponse(res.val, CachedJsonHeaders)))

\* axios.get(searchUrl) settles.
SearchDone(r, reply) ==
  /\ reqs[r].pc = "fetch"
  /\ reqs[r].src = "pubmed"
  /\ Len(reqs[r].calls) = 1
  /\ LET rq == [reqs[r] EXCEPT !.replies = Append(@, reply)]
     IN Step(r, IF reply.kind = "neterr" THEN Catch(rq)
                ELSE IF ~reply.root THEN Catch(rq)
                ELSE IF ~HasLength(reply.id)
                  THEN Finish(rq, SuccessResponse(EmptyResponseData, JsonHeaders))
                ELSE IF ~JoinedIds(reply.id).ok THEN Catch(rq)
                ELSE rateLimit([rq EXCEPT !.count = reply.count],
                               FetchUrl(JoinedIds(reply.id).val)))

\* axios.get(fetchUrl) settles.
DetailDone(r, reply) ==
  /\ reqs[r].pc = "fetch"
  /\ reqs[r].src = "pubmed"
  /\ Len(reqs[r].calls) = 2
  /\ LET rq == [reqs[r] EXCEPT !.replies = Append(@, reply)]
     IN Step(r, IF reply.kind = "neterr" THEN Catch(rq)
                ELSE IF ~PubMedPapers(reply).ok THEN Catch(rq)
                ELSE Finish(rq, SuccessResponse(
                       PubMedResponseData(PubMedPapers(reply).val, rq.count),
                       CachedJsonHeaders)))

\* The instants the clock may jump to: the next millisecond, a pending timer's
\* deadline, the end of a source's interval.
Instants ==
  {now + 1}
  \cup {reqs[r].timer : r \in {q \in 1..Len(reqs) : reqs[q].pc = "wait"}}
  \cup {lastRequestTime[s] + RATE_LIMIT(s) : s \in Sources}

Tick ==
  /\ ticks < MaxTicks
  /\ \E t \in Instants : t > now /\ now' = t
  /\ ticks' = ticks + 1
  /\ UNCHANGED <<lastRequestTime, reqs>>

----------------------------------------------------------------------------
\* What the clients send and what the upstreams answer.

\* The records that extend base by at most one value of field f.
WithOpt(base, f, vals) == base \cup {b @@ (f :> v) : b \in base, v \in vals}

YearBodies ==
  WithOpt(WithOpt({[query |-> "q"]}, "yearStart", {0, 2020}), "yearEnd", {0, 2021})

ArxivBodies ==
  {BadJson, <<>>}
  \cup WithOpt({[query |-> "q"]}, "maxResults", {0, 2, MaxEntries})
  \cup WithOpt(YearBodies, "searchField", {"title", "author", "abstract", "all"})

PubMedBodies ==
  {BadJson, <<>>}
  \cup WithOpt({[query |-> "q"]}, "maxResults", {2})
  \cup WithOpt(YearBodies, "sortBy", {"relevance", "pub_date"})

Bodies(src) == IF src = "arxiv" THEN ArxivBodies ELSE PubMedBodies

\* The bodies of the concurrent workload.
FewBodies(src) ==
  IF src = "arxiv" THEN {[query |-> "q", maxResults |-> 2]}
  ELSE {BadJson, [query |-> "q"]}

Padded(t) == Str(<<" ", t, " ">>)
PdfLinks == Arr(<<[href |-> "abs", rel |-> "alternate"], [href |-> "pdf", title |-> "pdf"]>>)
OtherLinks == Arr(<<[href |-> "abs", rel |-> "alternate"], [href |-> "doi", title |-> "doi"]>>)

OneAuthorEntry ==
  [author |-> Obj([name |-> "A"]), category |-> Obj([term |-> "cs"]),
   link |-> PdfLinks, title |-> Padded("T"), summary |-> Padded("S"), id |-> "e1"]

ManyAuthorEntry ==
  [author |-> Arr(<<[name |-> "A"], [name |-> "B"]>>),
   category |-> Arr(<<[term |-> "cs"], [term |-> "math"]>>),
   link |-> PdfLinks, title |-> Padded("T"), summary |-> Padded("S"), id |-> "e2"]

Entries ==
  {OneAuthorEntry, ManyAuthorEntry,
   [ManyAuthorEntry EXCEPT !.link = OtherLinks],
   [ManyAuthorEntry EXCEPT !.link = Obj([href |-> "abs", rel |-> "alternate"])],
   [OneAuthorEntry EXCEPT !.author = Undef],
   [OneAuthorEntry EXCEPT !.summary = Undef]}

EntryCounts == (2..MaxEntries) \cup {DEFAULT_MAX_RESULTS}

\* feed.entry as the parser leaves it: missing, one bare object, or an array.
EntryShapes(es) ==
  {Undef} \cup {Obj(e) : e \in es}
  \cup {Arr(Copies(e, n)) : e \in es, n \in EntryCounts}
  \cup {Arr(<<OneAuthorEntry, ManyAuthorEntry>>)}

Feed(entry, total) == [kind |-> "xml", feed |-> TRUE, entry |-> entry, total |-> total]

ArxivReplies ==
  {NetErr, [kind |-> "xml", feed |-> FALSE, entry |-> Undef, total |-> Undef]}
  \cup {Feed(e, Obj("attrs")) : e \in EntryShapes(Entries)}
  \cup {Feed(e, t) : e \in EntryShapes({OneAuthorEntry}), t \in {Undef, Arr(<<7>>), Num(7)}}

FewArxivReplies ==
  {Feed(Arr(Copies(ManyAuthorEntry, 2)), Obj("attrs"))}

IdList(id, count) == [kind |-> "xml", root |-> TRUE, id |-> id, count |-> count]

SearchReplies ==
  {NetErr, [kind |-> "xml", root |-> FALSE, id |-> Undef, count |-> Undef]}
  \cup {IdList(id, c) : id \in {Undef, Num(111), Str("x"), Arr(<<111, 222>>)},
                        c \in {Undef, Num(40)}}

FewSearchReplies ==
  {IdList(Undef, Num(0)), IdList(Arr(<<111, 222>>), Num(2))}

OneAuthorArticle ==
  [medline |-> TRUE, journal |-> TRUE, pmid |-> 111,
   author |-> Obj([LastName |-> "L", ForeName |-> "F"]),
   eloc |-> Obj([EIdType |-> "doi", hashText |-> "10.1/x"])]

ManyAuthorArticle ==
  [medline |-> TRUE, journal |-> TRUE, pmid |-> 222,
   author |-> Arr(<<[LastName |-> "L", ForeName |-> "F"], [LastName |-> "M"]>>),
   eloc |-> Arr(<<[EIdType |-> "pii", hashText |-> "S1"],
                  [EIdType |-> "doi", hashText |-> "10.1/y"]>>)]

Articles ==
  {OneAuthorArticle, ManyAuthorArticle,
   [OneAuthorArticle EXCEPT !.author = Undef, !.eloc = Undef],
   [OneAuthorArticle EXCEPT !.journal = FALSE],
   [ManyAuthorArticle EXCEPT !.medline = FALSE]}

ArticleSet(article) == [kind |-> "xml", set |-> TRUE, article |-> article]

DetailReplies ==
  {NetErr, [kind |-> "xml", set |-> FALSE, article |-> Undef], ArticleSet(Undef)}
  \cup {ArticleSet(Obj(a)) : a \in Articles}
  \cup {ArticleSet(Arr(<<a, ManyAuthorArticle>>)) : a \in Articles}

FewDetailReplies ==
  {NetErr, ArticleSet(Arr(<<OneAuthorArticle, ManyAuthorArticle>>))}

----------------------------------------------------------------------------
\* Spec: up to MaxReq overlapping requests.

Next ==
  \/ \E src \in Sources, method \in Methods : Len(reqs) < MaxReq /\ Arrive(src, method)
  \/ \E r \in 1..Len(reqs) : \E body \in FewBodies(reqs[r].src) : BodyParsed(r, body)
  \/ \E r \in 1..Len(reqs) : TimerFire(r)
  \/ \E r \in 1..Len(reqs) : \E reply \in FewArxivReplies : ArxivFetchDone(r, reply)
  \/ \E r \in 1..Len(reqs) : \E reply \in FewSearchReplies : SearchDone(r, reply)
  \/ \E r \in 1..Len(reqs) : \E reply \in FewDetailReplies : DetailDone(r, reply)
  \/ Tick

Spec == Init /\ [][Next]_vars

\* SingleSpec: one request handled alone, over every body and every reply.

SingleNext ==
  \/ \E src \in Sources, method \in Methods : reqs = <<>> /\ Arrive(src, method)
  \/ \E r \in 1..Len(reqs) : \E body \in Bodies(reqs[r].src) : BodyParsed(r, body)
  \/ \E r \in 1..Len(reqs) : TimerFire(r)
  \/ \E r \in 1..Len(reqs) : \E reply \in ArxivReplies : ArxivFetchDone(r, reply)
  \/ \E r \in 1..Len(reqs) : \E reply \in SearchReplies : SearchDone(r, reply)
  \/ \E r \in 1..Len(reqs) : \E reply \in DetailReplies : DetailDone(r, reply)
  \/ Tick

SingleSpec == Init /\ [][SingleNext]_vars

----------------------------------------------------------------------------
\* The claims.

Reqs == 1..Len(reqs)
Done(r) == reqs[r].pc = "done"
Succeeded(r) == Done(r) /\ Len(reqs[r].out) = 1 /\ reqs[r].out[1].kind = "success"
IsError(r, type) == reqs[r].out = <<createErrorResponse(type)>>

\* Every outbound call made so far, as <<request, index>>.
Calls == {c \in Reqs \X (1..2) : c[2] <= Len(reqs[c[1]].calls)}
CallAt(c) == reqs[c[1]].calls[c[2]].at
Apart(c, d) == IF CallAt(c) >= CallAt(d) THEN CallAt(c) - CallAt(d) ELSE CallAt(d) - CallAt(c)

\* C1: any two grants of the rate limiter of one source are at least RATE_LIMIT
\* milliseconds apart (3000 for the preprint source, 100 for the literature
\* index), whatever the number and the interleaving of the requests.
C1_GrantsApart ==
  \A c \in Calls, d \in Calls :
    (c # d /\ reqs[c[1]].src = reqs[d[1]].src)
      => Apart(c, d) >= (IF reqs[c[1]].src = "arxiv" THEN 3000 ELSE 100)

\* The record identifiers of an ID-search reply, as text.
IdsOf(reply) ==
  IF reply.kind # "xml" \/ ~reply.root THEN <<>>
  ELSE IF reply.id.kind = "arr" THEN [i \in 1..Len(reply.id.val) |-> IdText(reply.id.val[i])]
  ELSE IF reply.id.kind = "num" THEN <<IdText(reply.id.val)>>
  ELSE IF reply.id.kind = "str" THEN <<reply.id.val>>
  ELSE <<>>

Searched(r) == reqs[r].src = "pubmed" /\ Len(reqs[r].replies) >= 1

\* C2: when the ID-search reply holds one or more identifiers (exactly one
\* included), the literature-index handler has issued an efetch call keyed by
\* the comma-joined identifiers, after the ID search, by the time it responds.
C2_DetailFetchIssued ==
  \A r \in Reqs :
    (Searched(r) /\ Len(IdsOf(reqs[r].replies[1])) >= 1 /\ Done(r))
      => /\ Len(reqs[r].calls) = 2
         /\ reqs[r].calls[2].call.api = "efetch"
         /\ reqs[r].calls[2].call.term = Join(IdsOf(reqs[r].replies[1]), ",")
         /\ reqs[r].calls[2].at >= reqs[r].calls[1].at

ZeroIds(r) ==
  /\ Searched(r)
  /\ reqs[r].replies[1].kind = "xml"
  /\ reqs[r].replies[1].root
  /\ reqs[r].replies[1].id.kind = "undef"

\* C3: when the ID-search reply holds no identifier, the literature-index
\* request ends with the success response { papers: [], totalResults: 0 } and
\* neither a detail-fetch call nor a second rate-limit wait is made for it.
C3_EmptyShortCircuit ==
  \A r \in Reqs :
    ZeroIds(r)
      => /\ Succeeded(r)
         /\ reqs[r].out[1].body = [papers |-> <<>>, totalResults |-> Num(0)]
         /\ Len(reqs[r].calls) = 1
         /\ reqs[r].calls[1].call.api = "esearch"
         /\ reqs[r].timer = 0
         /\ reqs[r].pending = NoCall

C3_Witness ==
  \E r \in Reqs, q \in Reqs :
    /\ ZeroIds(r) /\ Done(r)
    /\ q # r /\ reqs[q].src = "pubmed" /\ reqs[q].pc \in {"wait", "fetch"}

\* The reply with which step i of request r faulted, if it did.
ReplyFaults(r, i) ==
  LET rq == reqs[r]
      reply == rq.replies[i]
  IN \/ reply.kind = "neterr"
     \/ rq.src = "arxiv" /\ ~ArxivNormalize(reply, MaxResultsOf(rq.body)).ok
     \/ rq.src = "pubmed" /\ i = 1
          /\ (~reply.root \/ (HasLength(reply.id) /\ ~JoinedIds(reply.id).ok))
     \/ rq.src = "pubmed" /\ i = 2 /\ ~PubMedPapers(reply).ok

Faulted(r) ==
  \/ Has(reqs[r].body, "bad")
  \/ \E i \in 1..Len(reqs[r].replies) : ReplyFaults(r, i)

\* C4: a POST request one of whose steps faults (the body does not parse, an
\* outbound call fails, the reply does not have the shape the handler reads)
\* produces exactly one response, the internal-server-error envelope and never
\* a papers result, and no outbound call follows the fault.
C4_FaultIsServerError ==
  \A r \in Reqs :
    (reqs[r].method = "POST" /\ Faulted(r))
      => /\ Done(r)
         /\ IsError(r, "InternalServerError")
         /\ Len(reqs[r].calls) = Len(reqs[r].replies)
         /\ reqs[r].pending = NoCall

C4_Witness ==
  \E r \in Reqs :
    /\ Faulted(r)
    /\ Len(reqs[r].replies) = 2
    /\ reqs[r].replies[2].kind = "xml"

\* C5: a request whose method is not POST gets the method-not-allowed envelope;
\* handling it makes no outbound call, waits on no timer and leaves the source's
\* lastRequestTime as it was.
C5_NonPostRejected ==
  /\ [](\A r \in Reqs :
          reqs[r].method # "POST"
            => /\ Done(r)
               /\ IsError(r, "MethodNotAllowed")
               /\ reqs[r].calls = <<>>
               /\ reqs[r].timer = 0
               /\ reqs[r].pending = NoCall)
  /\ [][(Len(reqs') = Len(reqs) + 1 /\ reqs'[Len(reqs')].method # "POST")
          => lastRequestTime' = lastRequestTime]_vars

C5_Witness ==
  \E r \in Reqs, q \in Reqs :
    /\ reqs[r].method # "POST" /\ Done(r)
    /\ q < r /\ reqs[q].src = reqs[r].src /\ reqs[q].pc = "wait"
    /\ lastRequestTime[reqs[r].src] > 0

\* C6: every success response of either handler, the empty-result
\* short-circuit included, carries Content-Type: application/json and
\* Cache-Control: max-age=3600.
C6_SuccessHeaders ==
  \A r \in Reqs :
    Succeeded(r)
      => /\ <<"Content-Type", "application/json">> \in reqs[r].out[1].headers
         /\ <<"Cache-Control", "max-age=3600">> \in reqs[r].out[1].headers

Requested(r) ==
  IF "maxResults" \in DOMAIN reqs[r].body THEN reqs[r].body.maxResults ELSE 10

\* C7: a success response of the preprint handler has nextCursor exactly when
\* the number of papers equals the requested maxResults (10 when omitted), and
\* nextCursor is then maxResults as a string.
C7_NextCursor ==
  \A r \in Reqs :
    (reqs[r].src = "arxiv" /\ Succeeded(r))
      => LET body == reqs[r].out[1].body
         IN /\ ("nextCursor" \in DOMAIN body) <=> (Len(body.papers) = Requested(r))
            /\ ("nextCursor" \in DOMAIN body) => body.nextCursor = ToString(Requested(r))

C7_Witness ==
  \E r \in Reqs :
    /\ reqs[r].src = "arxiv" /\ Succeeded(r)
    /\ "maxResults" \notin DOMAIN reqs[r].body
    /\ Len(reqs[r].out[1].body.papers) = 10
    /\ "nextCursor" \in DOMAIN reqs[r].out[1].body

Translated(r) == reqs[r].src = "pubmed" /\ Len(reqs[r].calls) >= 1

NonZero(body, f) == f \in DOMAIN body /\ body[f] # 0

\* C8 as stated: with yearStart present (a year) and yearEnd absent the
\* literature-index query is (<query>) AND (<yearStart>[PDAT] : ), the range
\* separator followed by an empty right-hand side.
C8_OneSidedRange ==
  \A r \in Reqs :
    (Translated(r) /\ NonZero(reqs[r].body, "yearStart")
       /\ "yearEnd" \notin DOMAIN reqs[r].body)
      => reqs[r].calls[1].call.term =
           "(" \o QueryOf(reqs[r].body) \o ") AND ("
             \o ToString(reqs[r].body.yearStart) \o "[PDAT] : )"

\* C8 as amended: with a non-zero yearStart and yearEnd absent or 0 the
\* literature-index query is (<query>) AND (<yearStart>[PDAT]): the date clause
\* is the single bound, with no range separator.
C8_SingleBound ==
  \A r \in Reqs :
    (Translated(r) /\ NonZero(reqs[r].body, "yearStart")
       /\ ~NonZero(reqs[r].body, "yearEnd"))
      => reqs[r].calls[1].call.term =
           "(" \o QueryOf(reqs[r].body) \o ") AND ("
             \o ToString(reqs[r].body.yearStart) \o "[PDAT])"

C8_Witness ==
  \E r \in Reqs :
    /\ Translated(r)
    /\ NonZero(reqs[r].body, "yearStart")
    /\ "yearEnd" \notin DOMAIN reqs[r].body

\* Request r answered what it would have answered to the reply `wrapped`.
SameAsWrapped(r, wrapped) ==
  reqs[r].src = "arxiv"
    /\ ArxivNormalize(wrapped, MaxResultsOf(reqs[r].body)).ok
    => /\ Succeeded(r)
       /\ reqs[r].out[1].body =
            ArxivNormalize(wrapped, MaxResultsOf(reqs[r].body)).val

\* C9: a repeatable XML element that occurs once (the parser leaves a bare
\* object or scalar) is normalised without a fault and as a one-element
\* sequence would be: one author and one category give one-element sequences,
\* one entry or article gives one paper, one ID is a one-element ID list.
C9_SingleAsSequence ==
  \A r \in Reqs :
    Done(r) /\ Len(reqs[r].replies) >= 1 /\ reqs[r].replies[1].kind = "xml"
      => LET first == reqs[r].replies[1]
         IN /\ (reqs[r].src = "arxiv" /\ first.feed /\ first.entry.kind = "obj")
                 => SameAsWrapped(r, [first EXCEPT !.entry = Arr(<<first.entry.val>>)])
            /\ (reqs[r].src = "arxiv" /\ Succeeded(r) /\ first.entry.kind = "arr")
                 => \A i \in 1..Len(first.entry.val) :
                      /\ first.entry.val[i].author.kind = "obj"
                           => reqs[r].out[1].body.papers[i].authors
                                = <<first.entry.val[i].author.val.name>>
                      /\ first.entry.val[i].category.kind = "obj"
                           => reqs[r].out[1].body.papers[i].categories
                                = <<first.entry.val[i].category.val.term>>
            /\ (reqs[r].src = "pubmed" /\ first.root /\ first.id.kind = "num")
                 => /\ Len(reqs[r].calls) = 2
                    /\ reqs[r].calls[2].call.term = IdText(first.id.val)
            /\ (reqs[r].src = "pubmed" /\ Len(reqs[r].replies) = 2
                  /\ reqs[r].replies[2].kind = "xml" /\ reqs[r].replies[2].set
                  /\ reqs[r].replies[2].article.kind = "obj"
                  /\ PubMedPaper(reqs[r].replies[2].article.val).ok)
                 => /\ Succeeded(r)
                    /\ Len(reqs[r].out[1].body.papers) = 1

\* C10: in one literature-index request that reaches the detail fetch, the
\* efetch call is dispatched at least 100 ms after the same request's esearch
\* call, whatever other literature-index requests do meanwhile.
C10_DetailAfterInterval ==
  \A r \in Reqs :
    (reqs[r].src = "pubmed" /\ Len(reqs[r].calls) = 2)
      => reqs[r].calls[2].at - reqs[r].calls[1].at >= 100

C10_Witness ==
  \E r \in Reqs, q \in Reqs :
    /\ q # r /\ reqs[r].src = "pubmed" /\ reqs[q].src = "pubmed"
    /\ Len(reqs[r].calls) = 2
    /\ \E i \in 1..Len(reqs[q].calls) :
         /\ reqs[q].calls[i].at > reqs[r].calls[1].at
         /\ reqs[q].calls[i].at <= reqs[r].calls[2].at

====
